---- MODULE Spec2Model ----
(***************************************************************************)
(* A model of the VoltDB execution-engine plan-node core:                  *)
(*   src/src/ee/plannodes/abstractplannode.cpp   (AbstractPlanNode)        *)
(*   src/src/ee/executors/tablecountexecutor.cpp (TableCountExecutor)      *)
(*                                                                         *)
(* The heap of AbstractPlanNode objects is the function plannodes from     *)
(* addresses to records whose fields carry the members' names.  Objects    *)
(* are allocated at consecutive addresses; a deleted object keeps its      *)
(* record (the memory is only counted as freed, in the bag deletes).       *)
(***************************************************************************)
EXTENDS Integers, Sequences, FiniteSets, Bags, TLC

\* ------------------------------------------------------------------ bounds
NumNodes == 3        \* addresses available for AbstractPlanNode objects
MaxEdges == 2        \* addChild / addParent / addInlinePlanNode calls made by hand
MaxPlanDocs == 2     \* top-level documents of one serialized plan
MaxId == 2           \* ids of the top-level documents of a plan: 1..MaxId
MaxRows == 2         \* rows a target table holds at most
MaxCalls == 2        \* p_execute calls on one executor

\* --------------------------------------------------------------- constants
NULL == 0
SCHEMA_UNDEFINED_SO_GET_FROM_INLINE_PROJECTION == -1
SCHEMA_UNDEFINED_SO_GET_FROM_CHILD == -2

Addrs == 1..NumNodes

PLAN_NODE_TYPE_PROJECTION == "PLAN_NODE_TYPE_PROJECTION"
PLAN_NODE_TYPE_LIMIT == "PLAN_NODE_TYPE_LIMIT"
PLAN_NODE_TYPE_TABLECOUNT == "PLAN_NODE_TYPE_TABLECOUNT"
PlanNodeType ==
    {PLAN_NODE_TYPE_PROJECTION, PLAN_NODE_TYPE_LIMIT, PLAN_NODE_TYPE_TABLECOUNT}

\* plannodeutil's stringToPlanNode: the PLAN_NODE_TYPE string of a document
\* to the enumerator.
stringToPlanNode(typeString) ==
    CASE typeString = "PROJECTION" -> PLAN_NODE_TYPE_PROJECTION
      [] typeString = "LIMIT"      -> PLAN_NODE_TYPE_LIMIT
      [] typeString = "TABLECOUNT" -> PLAN_NODE_TYPE_TABLECOUNT

VARIABLES
    plannodes,   \* heap: address -> AbstractPlanNode record, or NoNode
    deletes,     \* the objects delete has been applied to: a bag of node
                 \* addresses and a bag of SchemaColumn objects
    edges,       \* number of addChild/addParent/addInlinePlanNode calls made by hand
    phase,       \* "build", "linked" or "teardown"
    doc,         \* the documents handed to fromJSONObject so far (top level)
    retval,      \* the addresses fromJSONObject returned for them
    pc,          \* getOutputSchema: "idle", "searching", "returned", "fatal"
    this,        \* getOutputSchema: the node it was called on
    parent,      \* getOutputSchema: the cursor of the while loop
    result,      \* getOutputSchema: the vector returned
    iter,        \* getOutputSchema: parity of the loop iterations made
    build,       \* "debug" (assert active) or "release" (NDEBUG)
    exec,        \* the TableCountExecutor, its TableCountPlanNode and its progress
    targetTable, \* the table the TableCountPlanNode counts
    outputTable  \* the node's output table (NoTable until p_init makes it)

vars == <<plannodes, deletes, edges, phase, doc, retval, pc, this, parent,
          result, iter, build, exec, targetTable, outputTable>>

NoNode == [type |-> "none"]

Allocated(h) == Cardinality({a \in DOMAIN h : h[a] # NoNode})

\* AbstractPlanNode::AbstractPlanNode(): the members the initializer list
\* sets, and the default-constructed containers.  m_validOutputColumnCount
\* is not in the initializer list; fromJSONObject assigns it before any read.
\* (type is the concrete class getEmptyPlanNode chose; handed is the history
\* of the addInlinePlanNode calls made on this node.)
AbstractPlanNode(type) ==
    [type |-> type,
     m_planNodeId |-> -1,
     m_executor |-> NULL,
     m_isInline |-> FALSE,
     m_children |-> <<>>,
     m_parents |-> <<>>,
     m_childIds |-> <<>>,
     m_parentIds |-> <<>>,
     m_inlineNodes |-> [t \in PlanNodeType |-> NULL],
     m_outputSchema |-> <<>>,
     m_validOutputColumnCount |-> "indeterminate",
     handed |-> {}]

\* new SchemaColumn(outputColumnValue): the object is identified by the
\* vector slot that owns it.
SchemaColumn(owner, i, outputColumnValue) ==
    [column |-> outputColumnValue, owner |-> owner, slot |-> i]

\* ------------------------------------------------------------ tree edges
addChild(h, node, child) ==
    [h EXCEPT ![node].m_children = Append(@, child)]

addParent(h, node, par) ==
    [h EXCEPT ![node].m_parents = Append(@, par)]

\* ---------------------------------------------------------- inline nodes
\* (mutant: map::insert instead of operator[]: an entry already present
\* for the type is kept)
addInlinePlanNodeKeepFirst(h, node, inline_node) ==
    [h EXCEPT ![node].m_inlineNodes[h[inline_node].type] =
                  IF @ = NULL THEN inline_node ELSE @,
              ![node].handed = @ \cup {inline_node},
              ![inline_node].m_isInline = TRUE]

addInlinePlanNode(h, node, inline_node) ==
    [h EXCEPT ![node].m_inlineNodes[h[inline_node].type] = inline_node,
              ![node].handed = @ \cup {inline_node},
              ![inline_node].m_isInline = TRUE]

getInlinePlanNode(h, node, type) ==
    h[node].m_inlineNodes[type]

\* ------------------------------------------------------------ documents
\* A PlannerDomValue object: keys is the set of keys present (hasKey), the
\* other fields are the values valueForKey gives.
hasKey(obj, key) == key \in obj.keys

RequiredKeys == {"PLAN_NODE_TYPE", "ID", "INLINE_NODES", "PARENT_IDS", "CHILDREN_IDS"}

Document(typeString, id, inlineNodes, parentIds, childIds, outputSchema) ==
    [keys |-> RequiredKeys \cup {"OUTPUT_SCHEMA"},
     PLAN_NODE_TYPE |-> typeString, ID |-> id, INLINE_NODES |-> inlineNodes,
     PARENT_IDS |-> parentIds, CHILDREN_IDS |-> childIds,
     OUTPUT_SCHEMA |-> outputSchema]

DocumentNoSchema(typeString, id, inlineNodes, parentIds, childIds) ==
    [keys |-> RequiredKeys,
     PLAN_NODE_TYPE |-> typeString, ID |-> id, INLINE_NODES |-> inlineNodes,
     PARENT_IDS |-> parentIds, CHILDREN_IDS |-> childIds,
     OUTPUT_SCHEMA |-> <<>>]

\* number of AbstractPlanNode objects fromJSONObject allocates for obj
RECURSIVE DocNodes(_)
RECURSIVE DocNodesFrom(_, _)
DocNodesFrom(arr, i) ==
    IF i > Len(arr) THEN 0 ELSE DocNodes(arr[i]) + DocNodesFrom(arr, i + 1)
DocNodes(obj) == 1 + DocNodesFrom(obj.INLINE_NODES, 1)

\* ------------------------------------------------------- deserialization
\* the push_back loops over an id array (asInt of each entry, in order)
RECURSIVE pushBackIds(_, _, _)
pushBackIds(vec, idsArray, i) ==
    IF i > Len(idsArray) THEN vec
    ELSE pushBackIds(Append(vec, idsArray[i]), idsArray, i + 1)

\* the loop that builds one owned SchemaColumn per OUTPUT_SCHEMA entry
RECURSIVE pushBackColumns(_, _, _, _)
pushBackColumns(vec, node, outputSchemaArray, i) ==
    IF i > Len(outputSchemaArray) THEN vec
    ELSE pushBackColumns(Append(vec, SchemaColumn(node, Len(vec) + 1, outputSchemaArray[i])),
                         node, outputSchemaArray, i + 1)

\* (mutant: the inline projection is looked for before OUTPUT_SCHEMA)
outputSchemaOriginProjectionFirst(h, node, obj) ==
    IF getInlinePlanNode(h, node, PLAN_NODE_TYPE_PROJECTION) # NULL
    THEN [h EXCEPT ![node].m_validOutputColumnCount =
                       SCHEMA_UNDEFINED_SO_GET_FROM_INLINE_PROJECTION]
    ELSE IF hasKey(obj, "OUTPUT_SCHEMA")
    THEN LET schema == pushBackColumns(h[node].m_outputSchema, node, obj.OUTPUT_SCHEMA, 1)
         IN  [h EXCEPT ![node].m_outputSchema = schema,
                       ![node].m_validOutputColumnCount = Len(schema)]
    ELSE [h EXCEPT ![node].m_validOutputColumnCount =
                       SCHEMA_UNDEFINED_SO_GET_FROM_CHILD]

\* (mutant: without OUTPUT_SCHEMA the node is always marked "get from
\* inline projection", whether it has one or not)
outputSchemaOriginAlwaysProjection(h, node, obj) ==
    IF hasKey(obj, "OUTPUT_SCHEMA")
    THEN LET schema == pushBackColumns(h[node].m_outputSchema, node, obj.OUTPUT_SCHEMA, 1)
         IN  [h EXCEPT ![node].m_outputSchema = schema,
                       ![node].m_validOutputColumnCount = Len(schema)]
    ELSE [h EXCEPT ![node].m_validOutputColumnCount =
                       SCHEMA_UNDEFINED_SO_GET_FROM_INLINE_PROJECTION]

\* the schema-origin mark fromJSONObject leaves on node (the if / else if /
\* else after the id arrays), given the heap with the inline nodes attached
outputSchemaOrigin(h, node, obj) ==
    IF hasKey(obj, "OUTPUT_SCHEMA")
    THEN LET schema == pushBackColumns(h[node].m_outputSchema, node, obj.OUTPUT_SCHEMA, 1)
         IN  [h EXCEPT ![node].m_outputSchema = schema,
                       ![node].m_validOutputColumnCount = Len(schema)]
    ELSE IF getInlinePlanNode(h, node, PLAN_NODE_TYPE_PROJECTION) # NULL
    THEN [h EXCEPT ![node].m_validOutputColumnCount =
                       SCHEMA_UNDEFINED_SO_GET_FROM_INLINE_PROJECTION]
    ELSE [h EXCEPT ![node].m_validOutputColumnCount =
                       SCHEMA_UNDEFINED_SO_GET_FROM_CHILD]

RECURSIVE fromJSONObject(_, _)
RECURSIVE inlineNodesLoop(_, _, _, _)

\* the loop over INLINE_NODES: build each entry, then addInlinePlanNode it
inlineNodesLoop(h, node, inlineNodesValue, i) ==
    IF i > Len(inlineNodesValue) THEN h
    ELSE LET built == fromJSONObject(h, inlineNodesValue[i])
         IN  inlineNodesLoop(addInlinePlanNode(built.heap, node, built.retval),
                             node, inlineNodesValue, i + 1)

\* AbstractPlanNode::fromJSONObject on heap h: the heap afterwards and the
\* address returned.
fromJSONObject(h, obj) ==
    LET node == Allocated(h) + 1
        h0 == [h EXCEPT ![node] =
                  [AbstractPlanNode(stringToPlanNode(obj.PLAN_NODE_TYPE))
                      EXCEPT !.m_planNodeId = obj.ID]]
        h1 == inlineNodesLoop(h0, node, obj.INLINE_NODES, 1)
        h2 == [h1 EXCEPT ![node].m_parentIds = pushBackIds(@, obj.PARENT_IDS, 1),
                         ![node].m_childIds = pushBackIds(@, obj.CHILDREN_IDS, 1)]
    IN  [heap |-> outputSchemaOrigin(h2, node, obj), retval |-> node]

\* ------------------------------------------------------ getOutputSchema
\* DEBUG_ASSERT_OR_THROW_OR_CRASH(condition, message): TRUE when the call
\* passes; a failed condition is a fatal logic error.
DEBUG_ASSERT_OR_THROW_OR_CRASH(condition) == condition

Return(schema) == [kind |-> "return", schema |-> schema, parent |-> NULL]
Continue(next) == [kind |-> "continue", schema |-> <<>>, parent |-> next]
Fatal == [kind |-> "fatal", schema |-> <<>>, parent |-> NULL]

\* (mutant: a zero-column schema is not taken as defined)
definedHereOnlyIfNonEmpty(h, node) == h[node].m_validOutputColumnCount > 0

\* the test before the loop: a schema defined at this plan node
definedHere(h, node) == h[node].m_validOutputColumnCount >= 0

\* (mutant: the inline projection's own mark is not checked)
fromInlineProjectionUnchecked(h, par) ==
    LET schema_definer == getInlinePlanNode(h, par, PLAN_NODE_TYPE_PROJECTION)
    IN  IF ~DEBUG_ASSERT_OR_THROW_OR_CRASH(schema_definer # NULL) THEN Fatal
        ELSE Return(h[schema_definer].m_outputSchema)

\* the branch of the loop for SCHEMA_UNDEFINED_SO_GET_FROM_INLINE_PROJECTION
fromInlineProjection(h, par) ==
    LET schema_definer == getInlinePlanNode(h, par, PLAN_NODE_TYPE_PROJECTION)
    IN  IF ~DEBUG_ASSERT_OR_THROW_OR_CRASH(schema_definer # NULL) THEN Fatal
        ELSE IF ~DEBUG_ASSERT_OR_THROW_OR_CRASH(
                    h[schema_definer].m_validOutputColumnCount >= 0) THEN Fatal
        ELSE Return(h[schema_definer].m_outputSchema)

\* the branch of the loop for SCHEMA_UNDEFINED_SO_GET_FROM_CHILD
fromChild(h, par) ==
    IF ~DEBUG_ASSERT_OR_THROW_OR_CRASH(h[par].m_children # <<>>) THEN Fatal
    ELSE LET schema_definer == h[par].m_children[1]
         IN  IF ~DEBUG_ASSERT_OR_THROW_OR_CRASH(schema_definer # NULL) THEN Fatal
             ELSE IF h[schema_definer].m_validOutputColumnCount >= 0
             THEN Return(h[schema_definer].m_outputSchema)
             ELSE Continue(schema_definer)

\* one iteration of the while (true) loop with the cursor at par; leaving
\* the loop by break ends in throwFatalLogicErrorStreamed
schemaSearch(h, par) ==
    IF h[par].m_validOutputColumnCount = SCHEMA_UNDEFINED_SO_GET_FROM_INLINE_PROJECTION
    THEN fromInlineProjection(h, par)
    ELSE IF h[par].m_validOutputColumnCount = SCHEMA_UNDEFINED_SO_GET_FROM_CHILD
    THEN fromChild(h, par)
    ELSE Fatal

\* getOutputSchema run to its end with at most fuel iterations of the loop;
\* kind "continue" is left when the fuel runs out
RECURSIVE searchFrom(_, _, _)
searchFrom(h, par, fuel) ==
    LET step == schemaSearch(h, par)
    IN  IF step.kind = "continue" /\ fuel > 0
        THEN searchFrom(h, step.parent, fuel - 1)
        ELSE step

getOutputSchema(h, node) ==
    IF definedHere(h, node) THEN Return(h[node].m_outputSchema)
    ELSE searchFrom(h, node, NumNodes)

\* ----------------------------------------------------------- destructor
\* the order in which a std::map<PlanNodeType, ...> is iterated
TypeOrder ==
    <<PLAN_NODE_TYPE_PROJECTION, PLAN_NODE_TYPE_LIMIT, PLAN_NODE_TYPE_TABLECOUNT>>

NoDeletes == [nodes |-> EmptyBag, columns |-> EmptyBag]

BagsPlus(d1, d2) ==
    [nodes |-> d1.nodes (+) d2.nodes, columns |-> d1.columns (+) d2.columns]

RECURSIVE deletePlanNode(_, _)
RECURSIVE deleteInlineNodes(_, _, _)

\* the loop over m_inlineNodes of ~AbstractPlanNode: delete (*iter).second
deleteInlineNodes(h, node, i) ==
    IF i > Len(TypeOrder) THEN NoDeletes
    ELSE LET second == h[node].m_inlineNodes[TypeOrder[i]]
         IN  BagsPlus(IF second = NULL THEN NoDeletes ELSE deletePlanNode(h, second),
                      deleteInlineNodes(h, node, i + 1))

\* the loop over m_outputSchema of ~AbstractPlanNode: delete m_outputSchema[i]
deleteOutputSchema(h, node) ==
    [nodes |-> EmptyBag,
     columns |-> SetToBag({h[node].m_outputSchema[i] :
                              i \in 1..Len(h[node].m_outputSchema)})]

\* delete node: ~AbstractPlanNode runs, then the object itself is freed
\* (m_executor is NULL in every plan modelled here: delete NULL does nothing)
deletePlanNode(h, node) ==
    BagsPlus([nodes |-> SetToBag({node}), columns |-> EmptyBag],
             BagsPlus(deleteInlineNodes(h, node, 1), deleteOutputSchema(h, node)))

TimesDeleted(d, node) == CopiesIn(node, d.nodes)
TimesColumnDeleted(d, col) == CopiesIn(col, d.columns)

\* the nodes reachable from node along m_inlineNodes entries, node included
RECURSIVE InlineClosure(_, _, _)
InlineClosure(h, seen, fuel) ==
    LET more == seen \cup ({h[a].m_inlineNodes[t] : a \in seen, t \in PlanNodeType} \ {NULL})
    IN  IF fuel = 0 \/ more = seen THEN seen ELSE InlineClosure(h, more, fuel - 1)

Live(h) == {a \in DOMAIN h : h[a] # NoNode}

\* ------------------------------------------------------------- documents
\* documents without inline nodes and without id references: a projection
\* or a limit, with an OUTPUT_SCHEMA of two or of no columns, or without one
LeafDocs ==
    {Document("PROJECTION", 1, <<>>, <<>>, <<>>, <<"a", "b">>),
     Document("LIMIT", 1, <<>>, <<>>, <<>>, <<>>),
     DocumentNoSchema("PROJECTION", 1, <<>>, <<>>, <<>>),
     DocumentNoSchema("LIMIT", 1, <<>>, <<>>, <<>>)}

\* documents with one inline node
HostDocs ==
    {Document("TABLECOUNT", 1, <<d>>, <<>>, <<>>, <<>>) : d \in LeafDocs}
    \cup {DocumentNoSchema("TABLECOUNT", 1, <<d>>, <<>>, <<>>) : d \in LeafDocs}

\* documents with two inline nodes
TwoInlineDocs ==
    {DocumentNoSchema("TABLECOUNT", 1, <<d, e>>, <<>>, <<>>) :
        d \in LeafDocs, e \in LeafDocs}

\* documents with an inline projection
ProjectionHostDocs == {d \in HostDocs : d.INLINE_NODES[1].PLAN_NODE_TYPE = "PROJECTION"}

GraphDocs == LeafDocs \cup ProjectionHostDocs

OwnedDocs == LeafDocs \cup HostDocs \cup TwoInlineDocs

\* ----------------------------------------------------------------- state
NoExec == [state |-> "none"]
NoTable == [kind |-> "none"]

InitPlan ==
    /\ plannodes = [a \in Addrs |-> NoNode]
    /\ deletes = NoDeletes
    /\ edges = 0
    /\ phase = "build"
    /\ doc = <<>>
    /\ retval = <<>>
    /\ pc = "idle"
    /\ this = NULL
    /\ parent = NULL
    /\ result = <<>>
    /\ iter = 0

Init ==
    /\ InitPlan
    /\ build = "debug"
    /\ exec = NoExec
    /\ targetTable = NoTable
    /\ outputTable = NoTable

searchVars == <<pc, this, parent, result, iter>>
execVars == <<build, exec, targetTable, outputTable>>

\* a caller deserializes one top-level document
Deserialize(obj) ==
    /\ phase = "build"
    /\ pc = "idle"
    /\ Allocated(plannodes) + DocNodes(obj) <= NumNodes
    /\ LET built == fromJSONObject(plannodes, obj)
       IN  /\ plannodes' = built.heap
           /\ doc' = Append(doc, obj)
           /\ retval' = Append(retval, built.retval)
    /\ UNCHANGED <<deletes, edges, phase, searchVars, execVars>>

BuildNode == \E obj \in GraphDocs : Deserialize(obj)

BuildOwnedNode == \E obj \in OwnedDocs : Deserialize(obj)

\* calls of the three linking methods on nodes of the heap
AddChild(node, child) ==
    /\ phase = "build"
    /\ pc = "idle"
    /\ edges < MaxEdges
    /\ plannodes' = addChild(plannodes, node, child)
    /\ edges' = edges + 1
    /\ UNCHANGED <<deletes, phase, doc, retval, searchVars, execVars>>

AddParent(node, par) ==
    /\ phase = "build"
    /\ pc = "idle"
    /\ edges < MaxEdges
    /\ plannodes' = addParent(plannodes, node, par)
    /\ edges' = edges + 1
    /\ UNCHANGED <<deletes, phase, doc, retval, searchVars, execVars>>

\* (a node is never made an inline node of itself or of one of its own
\* inline descendants: the destructor's recursion would not end)
AddInlinePlanNode(node, inline_node) ==
    /\ phase = "build"
    /\ pc = "idle"
    /\ edges < MaxEdges
    /\ node \notin InlineClosure(plannodes, {inline_node}, NumNodes)
    /\ plannodes' = addInlinePlanNode(plannodes, node, inline_node)
    /\ edges' = edges + 1
    /\ UNCHANGED <<deletes, phase, doc, retval, searchVars, execVars>>

\* getOutputSchema is called on node: the test before the loop
GetOutputSchema(node) ==
    /\ phase = "build"
    /\ pc = "idle"
    /\ this' = node
    /\ iter' = 0
    /\ IF definedHere(plannodes, node)
       THEN /\ pc' = "returned"
            /\ result' = plannodes[node].m_outputSchema
            /\ parent' = NULL
       ELSE /\ pc' = "searching"
            /\ result' = <<>>
            /\ parent' = node
    /\ UNCHANGED <<plannodes, deletes, edges, phase, doc, retval, execVars>>

\* one iteration of the loop
SearchStep ==
    /\ pc = "searching"
    /\ LET step == schemaSearch(plannodes, parent)
       IN  /\ pc' = CASE step.kind = "return" -> "returned"
                      [] step.kind = "fatal" -> "fatal"
                      [] step.kind = "continue" -> "searching"
           /\ result' = step.schema
           /\ parent' = step.parent
    /\ iter' = 1 - iter
    /\ UNCHANGED <<plannodes, deletes, edges, phase, doc, retval, this, execVars>>

\* the caller takes the vector returned
SearchDone ==
    /\ pc = "returned"
    /\ pc' = "idle"
    /\ this' = NULL
    /\ parent' = NULL
    /\ result' = <<>>
    /\ iter' = 0
    /\ UNCHANGED <<plannodes, deletes, edges, phase, doc, retval, execVars>>

\* plan teardown: delete node, for a node that is not an inline node (an
\* inline node is deleted by the node that holds it) and is not deleted yet
Destroy(node) ==
    /\ pc = "idle"
    /\ phase \in {"build", "teardown"}
    /\ ~plannodes[node].m_isInline
    /\ TimesDeleted(deletes, node) = 0
    /\ deletes' = BagsPlus(deletes, deletePlanNode(plannodes, node))
    /\ phase' = "teardown"
    /\ UNCHANGED <<plannodes, edges, doc, retval, searchVars, execVars>>

Next ==
    \/ BuildNode
    \/ \E a, b \in Live(plannodes) : AddChild(a, b)
    \/ \E a \in Live(plannodes) : GetOutputSchema(a)
    \/ SearchStep
    \/ SearchDone

\* plans built by the deserializer and linked by hand, with getOutputSchema
\* called on them
Spec == Init /\ [][Next]_vars

\* the same, where a search that can take a step eventually takes it
FairSpec == Spec /\ WF_vars(SearchStep)

NextOwn ==
    \/ BuildOwnedNode
    \/ \E a, b \in Live(plannodes) : AddChild(a, b)
    \/ \E a, b \in Live(plannodes) : AddParent(a, b)
    \/ \E a, b \in Live(plannodes) : AddInlinePlanNode(a, b)
    \/ \E a \in Live(plannodes) : Destroy(a)

\* plans built and linked by hand, then torn down
OwnSpec == Init /\ [][NextOwn]_vars

\* ------------------------------------------------------- one document
\* inline-node documents: a leaf, or a LIMIT that carries an inline node
InlineLeafDocs ==
    {Document(t, 9, <<>>, ids[1], ids[2], <<"a", "b">>) :
        t \in {"PROJECTION", "LIMIT"}, ids \in {<< <<>>, <<>> >>, << <<1>>, <<2, 1>> >>}}
    \cup {DocumentNoSchema(t, 9, <<>>, ids[1], ids[2]) :
        t \in {"PROJECTION", "LIMIT"}, ids \in {<< <<>>, <<>> >>, << <<1>>, <<2, 1>> >>}}

InlineDocs ==
    InlineLeafDocs
    \cup {DocumentNoSchema("LIMIT", 7, <<d>>, <<>>, <<>>) : d \in InlineLeafDocs}

InlineArrays ==
    {<<>>} \cup {<<d>> : d \in InlineDocs}
    \cup {<<d, e>> : d \in InlineLeafDocs, e \in InlineLeafDocs}

ParentIdArrays == {<<>>, <<2, 1>>}
ChildIdArrays == {<<>>, <<1, 2>>}

RichDocs ==
    {Document(t, id, inl, pids, cids, cols) :
        t \in {"LIMIT", "TABLECOUNT"}, id \in {1, 2}, inl \in InlineArrays,
        pids \in ParentIdArrays, cids \in ChildIdArrays,
        cols \in {<<>>, <<"a", "b">>}}
    \cup {DocumentNoSchema(t, id, inl, pids, cids) :
        t \in {"LIMIT", "TABLECOUNT"}, id \in {1, 2}, inl \in InlineArrays,
        pids \in ParentIdArrays, cids \in ChildIdArrays}

\* a caller deserializes one document, whatever its shape
LoadOneDocument ==
    /\ doc = <<>>
    /\ \E obj \in RichDocs : Deserialize(obj)

NextDoc == LoadOneDocument

\* fromJSONObject applied to one document
DocSpec == Init /\ [][NextDoc]_vars

\* --------------------------------------------------- a serialized plan
PlanIds == 1..MaxId

\* the documents of a plan's nodes: with or without OUTPUT_SCHEMA, with an
\* inline projection, an inline limit or no inline node
PlanDocs ==
    {Document("TABLECOUNT", id, inl, pids, cids, <<"a">>) :
        id \in PlanIds, pids \in {<<>>, <<1>>}, cids \in {<<>>, <<1>>, <<2, 1>>},
        inl \in {<<>>, <<Document("PROJECTION", 9, <<>>, <<>>, <<>>, <<"a", "b">>)>>}}
    \cup {DocumentNoSchema("LIMIT", id, inl, pids, cids) :
        id \in PlanIds, pids \in {<<>>, <<1>>}, cids \in {<<>>, <<1>>, <<2, 1>>},
        inl \in {<<>>, <<Document("PROJECTION", 9, <<>>, <<>>, <<>>, <<"a", "b">>)>>,
                 <<DocumentNoSchema("LIMIT", 9, <<>>, <<>>, <<>>)>>}}

\* a caller deserializes the next document of a plan
LoadDocument ==
    /\ Len(doc) < MaxPlanDocs
    /\ \E obj \in PlanDocs : Deserialize(obj)

\* The linking pass over the nodes the deserializer returned (the pool),
\* indexed by id: addChild for every recorded child id and addParent for
\* every recorded parent id, in the order recorded.
Pool == {retval[i] : i \in 1..Len(retval)}

NodesWithId(h, id) == {a \in Pool : h[a].m_planNodeId = id}

NodeWithId(h, id) == CHOOSE a \in NodesWithId(h, id) : TRUE

RECURSIVE linkChildren(_, _, _)
linkChildren(h, node, i) ==
    IF i > Len(h[node].m_childIds) THEN h
    ELSE linkChildren(addChild(h, node, NodeWithId(h, h[node].m_childIds[i])), node, i + 1)

RECURSIVE linkParents(_, _, _)
linkParents(h, node, i) ==
    IF i > Len(h[node].m_parentIds) THEN h
    ELSE linkParents(addParent(h, node, NodeWithId(h, h[node].m_parentIds[i])), node, i + 1)

RECURSIVE linkNodes(_, _)
linkNodes(h, k) ==
    IF k > Len(retval) THEN h
    ELSE linkNodes(linkParents(linkChildren(h, retval[k], 1), retval[k], 1), k + 1)

Linkable(h) ==
    /\ \A id \in PlanIds : Cardinality(NodesWithId(h, id)) <= 1
    /\ \A a \in Pool :
          /\ \A i \in 1..Len(h[a].m_childIds) : NodesWithId(h, h[a].m_childIds[i]) # {}
          /\ \A i \in 1..Len(h[a].m_parentIds) : NodesWithId(h, h[a].m_parentIds[i]) # {}

Link ==
    /\ phase = "build"
    /\ pc = "idle"
    /\ retval # <<>>
    /\ Linkable(plannodes)
    /\ plannodes' = linkNodes(plannodes, 1)
    /\ phase' = "linked"
    /\ UNCHANGED <<deletes, edges, doc, retval, searchVars, execVars>>

NextLoad ==
    \/ LoadDocument
    \/ Link

\* a serialized plan is deserialized document by document, then linked
LoadSpec == Init /\ [][NextLoad]_vars

\* ------------------------------------------------------------ properties
\* ------------------------------------------------- TableCountExecutor
\* a target table: the tuple counters of storage/table.h
Table(kind) ==
    [kind |-> kind, m_tupleCount |-> 0, m_invisibleTuplesPendingDeleteCount |-> 0]

activeTupleCount(table) == table.m_tupleCount

\* PersistentTable::visibleTupleCount
visibleTupleCount(table) ==
    table.m_tupleCount - table.m_invisibleTuplesPendingDeleteCount

\* the values a column of the output table can hold
Values == 0..MaxRows

\* a temp table of columnCount columns, without rows, and its scratch row
TempTable(columnCount, tempTuple) ==
    [columnCount |-> columnCount, tuples |-> <<>>, tempTuple |-> tempTuple]

setNValue(tuple, idx, value) == [tuple EXCEPT ![idx + 1] = value]

insertTuple(table, source) == [table EXCEPT !.tuples = Append(@, source)]

\* the address of the AbstractExpression of a node that has a predicate
Expression == 1

\* assert(condition): evaluated in the debug build only; FALSE aborts
assertion(b, condition) == b = "release" \/ condition

\* the TableCountPlanNode documents an executor is bound to: an
\* OUTPUT_SCHEMA of none, one or two columns, or the one column of an
\* inline projection
ExecDocs ==
    {Document("TABLECOUNT", 1, <<>>, <<>>, <<>>, schema) :
        schema \in {<<>>, <<"a">>, <<"a", "b">>}}
    \cup {DocumentNoSchema("TABLECOUNT", 1,
              <<Document("PROJECTION", 2, <<>>, <<>>, <<>>, <<"a">>)>>, <<>>, <<>>)}

\* TableCountExecutor::p_init: "true", or "abort" when an assert fails
p_init(b, h, abstract_node, target) ==
    IF ~assertion(b, h[abstract_node].type = PLAN_NODE_TYPE_TABLECOUNT) THEN "abort"
    ELSE IF ~assertion(b, target # NoTable) THEN "abort"
    ELSE IF ~assertion(b, Len(getOutputSchema(h, abstract_node).schema) = 1) THEN "abort"
    ELSE "true"

\* setTempOutputTable: an output table with the columns of the node's
\* output schema; its scratch row holds whatever the memory held
setTempOutputTable(h, abstract_node) ==
    LET n == Len(getOutputSchema(h, abstract_node).schema)
    IN  {TempTable(n, tup) : tup \in [1..n -> Values]}

Outcome(r, output_table) == [result |-> r, output_table |-> output_table]

\* (mutant: the scratch row is written before the target table is tested)
p_executeScratchFirst(b, predicate, output_table, target_table) ==
    IF ~assertion(b, output_table # NoTable) THEN {Outcome("abort", output_table)}
    ELSE IF ~assertion(b, output_table.columnCount = 1)
    THEN {Outcome("abort", output_table)}
    ELSE IF output_table.columnCount = 0
    THEN {Outcome("crash", output_table)}
    ELSE LET tmptup == setNValue(output_table.tempTuple, 0,
                                 visibleTupleCount(target_table))
             written == [output_table EXCEPT !.tempTuple = tmptup]
         IN  IF target_table.kind # "persistent"
             THEN {Outcome("exception", written)}
             ELSE IF ~assertion(b, predicate = NULL)
             THEN {Outcome("abort", written)}
             ELSE {Outcome("true", insertTuple(written, tmptup))}

\* TableCountExecutor::p_execute: the outcomes of one call, each with the
\* output table it leaves: "true" (returned), "exception"
\* (SerializableEEException thrown), "abort" (an assert failed), "crash"
p_execute(b, predicate, output_table, target_table) ==
    IF ~assertion(b, output_table # NoTable) THEN {Outcome("abort", output_table)}
    ELSE IF ~assertion(b, output_table.columnCount = 1)
    THEN {Outcome("abort", output_table)}
    ELSE IF target_table.kind # "persistent"
    THEN {Outcome("exception", output_table)}
    ELSE IF ~assertion(b, predicate = NULL)
    THEN {Outcome("abort", output_table)}
    ELSE IF output_table.columnCount = 0
    THEN \* setNValue(0, ...) on a tuple without columns writes outside the
         \* tuple's storage: undefined behaviour
         {Outcome("crash", output_table),
          Outcome("true", insertTuple(output_table, output_table.tempTuple))}
    ELSE LET tmptup == setNValue(output_table.tempTuple, 0,
                                 visibleTupleCount(target_table))
         IN  {Outcome("true",
                      insertTuple([output_table EXCEPT !.tempTuple = tmptup], tmptup))}

InitExec ==
    /\ InitPlan
    /\ build \in {"debug", "release"}
    /\ exec = NoExec
    /\ targetTable = NoTable
    /\ outputTable = NoTable

planVars == <<plannodes, deletes, edges, phase, doc, retval, searchVars>>

\* a TableCountPlanNode is deserialized, with or without a predicate, its
\* target table is a persistent or a streamed table, and an executor is
\* made for it
LoadTableCountNode ==
    /\ exec = NoExec
    /\ \E obj \in ExecDocs, predicate \in {NULL, Expression},
          kind \in {"persistent", "streamed"} :
          LET built == fromJSONObject(plannodes, obj)
          IN  /\ plannodes' = built.heap
              /\ doc' = Append(doc, obj)
              /\ retval' = Append(retval, built.retval)
              /\ exec' = [state |-> "constructed",
                          m_abstractNode |-> built.retval,
                          m_predicate |-> predicate,
                          calls |-> 0,
                          result |-> "none"]
              /\ targetTable' = Table(kind)
    /\ UNCHANGED <<deletes, edges, phase, searchVars, build, outputTable>>

P_init ==
    /\ exec.state = "constructed"
    /\ IF p_init(build, plannodes, exec.m_abstractNode, targetTable) = "abort"
       THEN /\ exec' = [exec EXCEPT !.state = "aborted", !.result = "abort"]
            /\ UNCHANGED outputTable
       ELSE /\ exec' = [exec EXCEPT !.state = "initialized", !.result = "true"]
            /\ outputTable' \in setTempOutputTable(plannodes, exec.m_abstractNode)
    /\ UNCHANGED <<planVars, build, targetTable>>

P_execute ==
    /\ exec.state = "initialized"
    /\ exec.calls < MaxCalls
    /\ \E outcome \in p_execute(build, exec.m_predicate, outputTable, targetTable) :
          /\ exec' = [exec EXCEPT !.calls = @ + 1,
                                  !.result = outcome.result,
                                  !.state = IF outcome.result \in {"abort", "crash"}
                                            THEN "aborted" ELSE @]
          /\ outputTable' = outcome.output_table
    /\ UNCHANGED <<planVars, build, targetTable>>

\* the storage engine changes the target table: a row is inserted, a row
\* is deleted but not yet reclaimed, a deleted row is reclaimed
InsertRow ==
    /\ exec.state \in {"constructed", "initialized"}
    /\ targetTable.m_tupleCount < MaxRows
    /\ targetTable' = [targetTable EXCEPT !.m_tupleCount = @ + 1]
    /\ UNCHANGED <<planVars, build, exec, outputTable>>

DeleteRow ==
    /\ exec.state \in {"constructed", "initialized"}
    /\ targetTable.kind = "persistent"
    /\ targetTable.m_invisibleTuplesPendingDeleteCount < targetTable.m_tupleCount
    /\ targetTable' = [targetTable EXCEPT !.m_invisibleTuplesPendingDeleteCount = @ + 1]
    /\ UNCHANGED <<planVars, build, exec, outputTable>>

ReclaimRow ==
    /\ exec.state \in {"constructed", "initialized"}
    /\ targetTable.m_invisibleTuplesPendingDeleteCount > 0
    /\ targetTable' = [targetTable EXCEPT !.m_invisibleTuplesPendingDeleteCount = @ - 1,
                                          !.m_tupleCount = @ - 1]
    /\ UNCHANGED <<planVars, build, exec, outputTable>>

NextExec ==
    \/ LoadTableCountNode
    \/ P_init
    \/ P_execute
    \/ InsertRow
    \/ DeleteRow
    \/ ReclaimRow

\* one TableCountExecutor, in a debug or a release build
ExecSpec == InitExec /\ [][NextExec]_vars

\* ------------------------------------------------------------ properties
Tag(a) == plannodes[a].m_validOutputColumnCount

\* C1: every call of getOutputSchema ends: a search that has started
\* reaches "returned" or "fatal" (no plan graph keeps it looping).
C1_SearchTerminates == (pc = "searching") ~> (pc \in {"returned", "fatal"})

InlineProjectionOf(a) == plannodes[a].m_inlineNodes[PLAN_NODE_TYPE_PROJECTION]

InlineProjectionDefines(a) ==
    /\ InlineProjectionOf(a) # NULL
    /\ plannodes[InlineProjectionOf(a)].type = PLAN_NODE_TYPE_PROJECTION
    /\ Tag(InlineProjectionOf(a)) >= 0

\* C2: getOutputSchema on a node marked "get from inline projection"
\* returns the column vector of that node's inline projection node, and is
\* a fatal error when there is no inline projection or the inline
\* projection does not define its own schema; no node is changed.
C2_InlineProjectionSchema ==
    [][(pc = "searching" /\ parent = this
            /\ Tag(this) = SCHEMA_UNDEFINED_SO_GET_FROM_INLINE_PROJECTION)
        => /\ plannodes' = plannodes
           /\ IF InlineProjectionDefines(this)
              THEN /\ pc' = "returned"
                   /\ result' = plannodes[InlineProjectionOf(this)].m_outputSchema
                   /\ \A i \in 1..Len(result') :
                         result'[i].owner = InlineProjectionOf(this)
              ELSE pc' = "fatal"]_vars

\* a node marked "get from inline projection" got the two columns of its
\* inline projection
C2_Witness ==
    /\ pc = "returned"
    /\ Tag(this) = SCHEMA_UNDEFINED_SO_GET_FROM_INLINE_PROJECTION
    /\ Len(result) = 2
    /\ result = plannodes[InlineProjectionOf(this)].m_outputSchema

\* C3: getOutputSchema on a node that defines n >= 0 columns returns that
\* node's own m_outputSchema, of exactly n columns in their order, whatever
\* inline nodes and children it has, and changes no node.
C3_DefinedHereSchema ==
    [][(pc = "idle" /\ pc' # "idle" /\ Tag(this') >= 0)
        => /\ pc' = "returned"
           /\ result' = plannodes[this'].m_outputSchema
           /\ Len(result') = Tag(this')
           /\ \A i \in 1..Len(result') :
                 result'[i].owner = this' /\ result'[i].slot = i
           /\ plannodes' = plannodes]_vars

\* a node defining zero columns, with an inline projection and a first
\* child that both define two, got its own empty vector
C3_Witness ==
    /\ pc = "returned"
    /\ Tag(this) = 0
    /\ result = <<>>
    /\ plannodes[this].m_children # <<>>
    /\ Tag(plannodes[this].m_children[1]) = 2
    /\ InlineProjectionOf(this) # NULL
    /\ Tag(InlineProjectionOf(this)) = 2

\* the node fromJSONObject built for entry j of obj's INLINE_NODES, when it
\* built obj's node at address a (objects are allocated in document order)
RECURSIVE DocNodesBefore(_, _)
DocNodesBefore(arr, j) ==
    IF j <= 1 THEN 0 ELSE DocNodes(arr[j - 1]) + DocNodesBefore(arr, j - 1)

EntryNode(a, obj, j) == a + 1 + DocNodesBefore(obj.INLINE_NODES, j)

Entries(obj) == 1..Len(obj.INLINE_NODES)

HasProjectionEntry(obj) ==
    \E j \in Entries(obj) : obj.INLINE_NODES[j].PLAN_NODE_TYPE = "PROJECTION"

ExpectedOrigin(obj) ==
    IF hasKey(obj, "OUTPUT_SCHEMA") THEN Len(obj.OUTPUT_SCHEMA)
    ELSE IF HasProjectionEntry(obj) THEN SCHEMA_UNDEFINED_SO_GET_FROM_INLINE_PROJECTION
    ELSE SCHEMA_UNDEFINED_SO_GET_FROM_CHILD

RECURSIVE OriginAsDocumented(_, _)
OriginAsDocumented(a, obj) ==
    /\ Tag(a) = ExpectedOrigin(obj)
    /\ IF hasKey(obj, "OUTPUT_SCHEMA")
       THEN /\ Len(plannodes[a].m_outputSchema) = Len(obj.OUTPUT_SCHEMA)
            /\ \A i \in 1..Len(obj.OUTPUT_SCHEMA) :
                  /\ plannodes[a].m_outputSchema[i].column = obj.OUTPUT_SCHEMA[i]
                  /\ plannodes[a].m_outputSchema[i].owner = a
       ELSE plannodes[a].m_outputSchema = <<>>
    /\ \A j \in Entries(obj) :
          OriginAsDocumented(EntryNode(a, obj, j), obj.INLINE_NODES[j])

\* C4: the node fromJSONObject builds (and each inline node it builds) is
\* marked by this priority: OUTPUT_SCHEMA present -> defined here with as
\* many owned columns as the array has entries (also zero); else an inline
\* projection present -> get from inline projection; else get from child.
C4_SchemaOrigin ==
    \A i \in 1..Len(doc) : OriginAsDocumented(retval[i], doc[i])

\* a document with an empty OUTPUT_SCHEMA and an inline projection gave a
\* node that defines zero columns
C4_Witness ==
    \E i \in 1..Len(doc) :
        /\ hasKey(doc[i], "OUTPUT_SCHEMA")
        /\ doc[i].OUTPUT_SCHEMA = <<>>
        /\ HasProjectionEntry(doc[i])
        /\ InlineProjectionOf(retval[i]) # NULL
        /\ Tag(retval[i]) = 0

HeldInline(a) == {plannodes[a].m_inlineNodes[t] : t \in PlanNodeType} \ {NULL}

EntryType(obj, j) == stringToPlanNode(obj.INLINE_NODES[j].PLAN_NODE_TYPE)

FieldsRecovered(a, obj) ==
    /\ plannodes[a].m_planNodeId = obj.ID
    /\ plannodes[a].type = stringToPlanNode(obj.PLAN_NODE_TYPE)
    /\ plannodes[a].m_parentIds = obj.PARENT_IDS
    /\ plannodes[a].m_childIds = obj.CHILDREN_IDS

RECURSIVE StructureRecovered(_, _)
StructureRecovered(a, obj) ==
    /\ FieldsRecovered(a, obj)
    /\ Cardinality(HeldInline(a)) = Len(obj.INLINE_NODES)
    /\ \A j \in Entries(obj) :
          /\ EntryNode(a, obj, j) \in HeldInline(a)
          /\ StructureRecovered(EntryNode(a, obj, j), obj.INLINE_NODES[j])

\* C5 as stated: the node built has the document's id, type and id arrays,
\* and holds one inline node for every INLINE_NODES entry, recursively.
C5_RoundTripEveryEntry ==
    \A i \in 1..Len(doc) : StructureRecovered(retval[i], doc[i])

LastOfType(obj, j) ==
    \A k \in Entries(obj) : k > j => EntryType(obj, k) # EntryType(obj, j)

RECURSIVE StructureRecoveredByType(_, _)
StructureRecoveredByType(a, obj) ==
    /\ FieldsRecovered(a, obj)
    /\ \A t \in PlanNodeType :
          (\A j \in Entries(obj) : EntryType(obj, j) # t)
              => plannodes[a].m_inlineNodes[t] = NULL
    /\ \A j \in Entries(obj) :
          /\ LastOfType(obj, j)
                => plannodes[a].m_inlineNodes[EntryType(obj, j)] = EntryNode(a, obj, j)
          /\ plannodes[EntryNode(a, obj, j)].m_isInline
          /\ StructureRecoveredByType(EntryNode(a, obj, j), obj.INLINE_NODES[j])

\* C5 amended: the node built has the document's id, type and id arrays (in
\* order), and its inline-node mapping holds, for every node type that
\* occurs in INLINE_NODES, the node built from the last entry of that type
\* and nothing else; every entry's node is itself built this way.
C5_RoundTripByType ==
    \A i \in 1..Len(doc) : StructureRecoveredByType(retval[i], doc[i])

\* a document with two inline entries of one type, and id arrays of two
\* ids, was deserialized: the mapping holds the second entry's node
C5_Witness ==
    \E i \in 1..Len(doc) :
        /\ Len(doc[i].INLINE_NODES) = 2
        /\ EntryType(doc[i], 1) = EntryType(doc[i], 2)
        /\ plannodes[retval[i]].m_inlineNodes[EntryType(doc[i], 1)] = retval[i] + 2
        /\ plannodes[retval[i]].m_childIds = <<1, 2>>
        /\ plannodes[retval[i]].m_parentIds = <<2, 1>>

OriginWellFormed(a) ==
    /\ Tag(a) = SCHEMA_UNDEFINED_SO_GET_FROM_INLINE_PROJECTION
          => /\ InlineProjectionOf(a) # NULL
             /\ plannodes[InlineProjectionOf(a)].type = PLAN_NODE_TYPE_PROJECTION
    /\ Tag(a) = SCHEMA_UNDEFINED_SO_GET_FROM_CHILD
          => plannodes[a].m_children # <<>>

\* C10 as stated: in a deserialized and linked plan every node (inline
\* nodes too) marked "get from inline projection" has an inline projection
\* and every node marked "get from child" has a tree child.
C10_OriginWellFormed ==
    phase = "linked" => \A a \in Live(plannodes) : OriginWellFormed(a)

OriginWellFormedIfChildIds(a) ==
    /\ Tag(a) = SCHEMA_UNDEFINED_SO_GET_FROM_INLINE_PROJECTION
          => /\ InlineProjectionOf(a) # NULL
             /\ plannodes[InlineProjectionOf(a)].type = PLAN_NODE_TYPE_PROJECTION
    /\ (Tag(a) = SCHEMA_UNDEFINED_SO_GET_FROM_CHILD /\ a \in Pool
            /\ plannodes[a].m_childIds # <<>>)
          => /\ plannodes[a].m_children # <<>>
             /\ plannodes[plannodes[a].m_children[1]].m_planNodeId
                    = plannodes[a].m_childIds[1]

\* C10 amended: in a deserialized and linked plan every node (inline nodes
\* too) marked "get from inline projection" has an inline projection, and
\* every node of the pool marked "get from child" whose CHILDREN_IDS is not
\* empty has a tree child (the node its first child id names).
C10_OriginWellFormedIfChildIds ==
    phase = "linked" => \A a \in Live(plannodes) : OriginWellFormedIfChildIds(a)

\* a linked plan with a node marked "get from inline projection" and a node
\* marked "get from child" that got its tree child
C10_Witness ==
    /\ phase = "linked"
    /\ \E a \in Pool : Tag(a) = SCHEMA_UNDEFINED_SO_GET_FROM_INLINE_PROJECTION
    /\ \E a \in Pool :
          /\ Tag(a) = SCHEMA_UNDEFINED_SO_GET_FROM_CHILD
          /\ plannodes[a].m_children # <<>>

Range(f) == {f[i] : i \in DOMAIN f}

TreeReferences(a) == Range(plannodes[a].m_children) \cup Range(plannodes[a].m_parents)

DestroysOwnedOnce(node) ==
    /\ \A n \in plannodes[node].handed : TimesDeleted(deletes', n) = 1
    /\ \A col \in Range(plannodes[node].m_outputSchema) :
          TimesColumnDeleted(deletes', col) = 1
    /\ \A r \in TreeReferences(node) \ InlineClosure(plannodes, {node}, NumNodes) :
          TimesDeleted(deletes', r) = TimesDeleted(deletes, r)

\* C6: a step that destroys a node leaves every inline node that was ever
\* handed to it through addInlinePlanNode, and every schema column it owns,
\* destroyed exactly once, and destroys none of its tree children and tree
\* parents.
C6_DestroyOwnedExactlyOnce ==
    [][\A node \in Live(plannodes) : Destroy(node) => DestroysOwnedOnce(node)]_vars

ExecuteAppendsVisibleCount ==
    /\ outputTable'.tuples =
           Append(outputTable.tuples, <<visibleTupleCount(targetTable)>>)
    /\ targetTable' = targetTable

\* C7: a p_execute call whose target table is a persistent table appends
\* exactly one row to the output table, the row's single column holds the
\* target's visible row count (active rows minus rows pending delete) at
\* the call, and the target table is unchanged.
C7_ExecuteAppendsVisibleCount ==
    [][(P_execute /\ targetTable.kind = "persistent")
          => ExecuteAppendsVisibleCount]_vars

\* C8: a p_execute call whose target table is a streamed table ends with
\* the exception thrown, and leaves the output table as it was: no row
\* appended, the scratch row not written.
C8_StreamedTargetThrows ==
    [][(P_execute /\ targetTable.kind = "streamed")
          => (exec'.result = "exception" /\ outputTable' = outputTable)]_vars

\* two calls on a streamed table that holds rows both threw, and the output
\* table has no row
C8_Witness ==
    /\ exec.state = "initialized"
    /\ targetTable.kind = "streamed"
    /\ targetTable.m_tupleCount > 0
    /\ exec.calls = 2
    /\ exec.result = "exception"
    /\ outputTable.tuples = <<>>

PreconditionsViolated ==
    \/ Len(getOutputSchema(plannodes, exec.m_abstractNode).schema) # 1
    \/ exec.m_predicate # NULL

\* C9: p_init does not report success for a node whose resolved output
\* schema does not have exactly one column or that carries a predicate, so
\* p_execute is never called on a node with a predicate.
C9_InitValidatesPreconditions ==
    [][/\ (P_init /\ PreconditionsViolated) => exec'.state # "initialized"
       /\ P_execute => exec.m_predicate = NULL]_vars


HeldInSomeMapping(a) ==
    \E b \in Live(plannodes), t \in PlanNodeType : plannodes[b].m_inlineNodes[t] = a

InSomeTreeList(a) == \E b \in Live(plannodes) : a \in TreeReferences(b)

\* C11: a node's m_isInline flag is true if and only if the node is
\* currently held in some node's m_inlineNodes mapping and is in no node's
\* m_children or m_parents list.
C11_IsInlineFlag ==
    \A a \in Live(plannodes) :
        plannodes[a].m_isInline <=> (HeldInSomeMapping(a) /\ ~InSomeTreeList(a))

====
